---------------------------- MODULE Spec2Model ----------------------------
(***************************************************************************)
(* SLIP framing (src/src/slip.rs): SlipEncoder::encode, the in-place      *)
(* rewrite of a bounded Vec into a frame, and SlipDecoder, the            *)
(* byte-at-a-time state machine with its bounded buffer.                  *)
(*                                                                         *)
(* Two specifications:                                                     *)
(*   SpecEnc  one encode call on a Vec<u8, MAX_LENGTH> holding any payload *)
(*   Spec     one SlipDecoder<MAX_LENGTH> driven by any sequence of        *)
(*            insert(byte) and reset() calls                               *)
(* Indexes are 0-based as in the source; a Vec v is the sequence of its    *)
(* len() live elements, v[i+1] being the source's v[i].                    *)
(***************************************************************************)
EXTENDS Integers, Sequences, FiniteSets, TLC

\* ------------------------------------------------------------- constants
END_CHAR == 192
ESC_CHAR == 219
ESC_END_CHAR == 220
ESC_ESC_CHAR == 221

\* ---------------------------------------------------------------- bounds
\* Longest payload handed to encode.
MaxLen == 3
\* Largest MAX_LENGTH of the encoder's Vec.
MaxEncLength == 8
\* Largest MAX_LENGTH of the decoder.
MaxDecLength == 2
\* Number of decoder calls (insert or reset) in one run.
MaxLog == 6

\* The u8 values told apart by the code: the four special bytes and one
\* ordinary byte (0x00) standing for the `_` arms.
Bytes == {0, END_CHAR, ESC_CHAR, ESC_END_CHAR, ESC_ESC_CHAR}

RECURSIVE SeqsUpTo(_)
SeqsUpTo(n) ==
    IF n = 0 THEN {<<>>}
    ELSE LET S == SeqsUpTo(n - 1)
         IN  S \cup {Append(s, b) : s \in {t \in S : Len(t) = n - 1}, b \in Bytes}

Payloads == SeqsUpTo(MaxLen)

\* The payload of test_encode_with_escape_characters: the four special bytes.
EscapeCharacters == <<END_CHAR, ESC_CHAR, ESC_END_CHAR, ESC_ESC_CHAR>>

VARIABLES
    vec,            \* encoder: the Vec<u8, MAX_LENGTH> handed to encode
    encMaxLength,   \* encoder: that Vec's MAX_LENGTH
    payload,        \* encoder: the Vec's content when encode was called
    encResult,      \* encoder: "none" before the call, then "Ok" or "Err"
    state,          \* decoder: SlipDecoder.state
    buffer,         \* decoder: SlipDecoder.buffer
    decMaxLength,   \* decoder: MAX_LENGTH of SlipDecoder<MAX_LENGTH>
    result,         \* decoder: what the last insert returned ("none" at first)
    log             \* decoder: the calls made so far: each with the state and
                    \* buffer it found (from, before), what it returned (ok)
                    \* and what is_buffer_completed() and get_buffer() gave
                    \* after it (completed, buf)

encVars == <<vec, encMaxLength, payload, encResult>>
decVars == <<state, buffer, decMaxLength, result, log>>
vars == <<vec, encMaxLength, payload, encResult, state, buffer, decMaxLength, result, log>>

\* ------------------------------------------------- the bounded Vec (Vec<u8, N>)
\* insert(index, value): shifts the elements at and after index right by one;
\* fails, changing nothing, when the Vec is full.
VecInsert(v, max, index, value) ==
    IF Len(v) >= max \/ index > Len(v)
    THEN [ok |-> FALSE, v |-> v]
    ELSE [ok |-> TRUE,
          v  |-> SubSeq(v, 1, index) \o <<value>> \o SubSeq(v, index + 1, Len(v))]

\* write(index, value): overwrites an existing slot.
VecWrite(v, index, value) ==
    IF index >= Len(v)
    THEN [ok |-> FALSE, v |-> v]
    ELSE [ok |-> TRUE, v |-> [v EXCEPT ![index + 1] = value]]

\* push(value): appends; fails, changing nothing, when the Vec is full.
VecPush(v, max, value) ==
    IF Len(v) >= max
    THEN [ok |-> FALSE, v |-> v]
    ELSE [ok |-> TRUE, v |-> Append(v, value)]

\* ---------------------------------------------------------------- encoder
\* EscapeAt writing the code over the ESC just inserted (index, not index + 1).
EscapeAtWrongSlot(v, max, index, code) ==
    LET i == VecInsert(v, max, index, ESC_CHAR)
    IN  IF ~i.ok THEN i ELSE VecWrite(i.v, index, code)

\* One escape arm of the loop: vec.insert(index, ESC_CHAR)?;
\* vec.write(index + 1, code)?; the Vec after it and whether both went through.
EscapeAt(v, max, index, code) ==
    LET i == VecInsert(v, max, index, ESC_CHAR)
    IN  IF ~i.ok THEN i ELSE VecWrite(i.v, index + 1, code)

\* The while loop from `index` on, then the closing vec.insert(vec.len(), END_CHAR)?.
RECURSIVE EncodeFrom(_, _, _)
EncodeFrom(v, max, index) ==
    IF index < Len(v)
    THEN IF v[index + 1] = END_CHAR
         THEN LET e == EscapeAt(v, max, index, ESC_END_CHAR)
              IN  IF ~e.ok THEN e ELSE EncodeFrom(e.v, max, index + 2)
         ELSE IF v[index + 1] = ESC_CHAR
         THEN LET e == EscapeAt(v, max, index, ESC_ESC_CHAR)
              IN  IF ~e.ok THEN e ELSE EncodeFrom(e.v, max, index + 2)
         ELSE EncodeFrom(v, max, index + 1)
    ELSE VecInsert(v, max, Len(v), END_CHAR)

\* encode with the `?` of its insertions dropped: a failed insertion is ignored
\* and the call returns Ok(()).
RECURSIVE EncodeFromUnchecked(_, _, _)
EncodeFromUnchecked(v, max, index) ==
    IF index < Len(v)
    THEN IF v[index + 1] \in {END_CHAR, ESC_CHAR}
         THEN LET code == IF v[index + 1] = END_CHAR THEN ESC_END_CHAR ELSE ESC_ESC_CHAR
                  e == EscapeAt(v, max, index, code)
              IN  IF ~e.ok THEN [ok |-> TRUE, v |-> e.v]
                  ELSE EncodeFromUnchecked(e.v, max, index + 2)
         ELSE EncodeFromUnchecked(v, max, index + 1)
    ELSE [ok |-> TRUE, v |-> VecInsert(v, max, Len(v), END_CHAR).v]

encodeUnchecked(v, max) ==
    EncodeFromUnchecked(VecInsert(v, max, 0, END_CHAR).v, max, 1)

\* encode working on a copy and storing it back only on success.
encodeRollback(v, max) ==
    LET b == VecInsert(v, max, 0, END_CHAR)
        r == IF ~b.ok THEN b ELSE EncodeFrom(b.v, max, 1)
    IN  IF r.ok THEN r ELSE [ok |-> FALSE, v |-> v]

\* SlipEncoder::encode: [ok, v], v being the Vec as the call leaves it.
encode(v, max) ==
    LET b == VecInsert(v, max, 0, END_CHAR)
    IN  IF ~b.ok THEN b ELSE EncodeFrom(b.v, max, 1)

\* ---------------------------------------------------------------- decoder
\* The arms of SlipDecoder::insert's match on self.state, each giving
\* [ok, state, buffer] as the call leaves them.

\* The Start arm storing the bytes it should skip.
insertStartStoring(buf, max, value) ==
    IF value = END_CHAR
    THEN [ok |-> TRUE, state |-> "Append", buffer |-> buf]
    ELSE [ok |-> TRUE, state |-> "Start", buffer |-> VecPush(buf, max, value).v]

\* SlipDecoderState::Start: END opens the frame, anything else is skipped.
insertStart(buf, max, value) ==
    [ok |-> TRUE,
     state |-> IF value = END_CHAR THEN "Append" ELSE "Start",
     buffer |-> buf]

\* The Append arm with the `?` of its push dropped: a full buffer goes unreported.
insertAppendUnchecked(buf, max, value) ==
    IF value = END_CHAR
    THEN [ok |-> TRUE, state |-> "End", buffer |-> buf]
    ELSE IF value = ESC_CHAR
    THEN [ok |-> TRUE, state |-> "Escape", buffer |-> buf]
    ELSE [ok |-> TRUE, state |-> "Append", buffer |-> VecPush(buf, max, value).v]

\* The Append arm without its ESC case: ESC is pushed like any other byte.
insertAppendNoEscape(buf, max, value) ==
    IF value = END_CHAR
    THEN [ok |-> TRUE, state |-> "End", buffer |-> buf]
    ELSE LET p == VecPush(buf, max, value)
         IN  [ok |-> p.ok, state |-> "Append", buffer |-> p.v]

\* The Append arm pushing the ESC that opens an escape.
insertAppendStoringEsc(buf, max, value) ==
    IF value = END_CHAR
    THEN [ok |-> TRUE, state |-> "End", buffer |-> buf]
    ELSE LET p == VecPush(buf, max, value)
         IN  [ok |-> p.ok,
              state |-> IF value = ESC_CHAR THEN "Escape" ELSE "Append",
              buffer |-> p.v]

\* SlipDecoderState::Append: END ends the frame, ESC opens an escape, any other
\* byte is pushed (self.buffer.push(value)?).
insertAppend(buf, max, value) ==
    IF value = END_CHAR
    THEN [ok |-> TRUE, state |-> "End", buffer |-> buf]
    ELSE IF value = ESC_CHAR
    THEN [ok |-> TRUE, state |-> "Escape", buffer |-> buf]
    ELSE LET p == VecPush(buf, max, value)
         IN  [ok |-> p.ok, state |-> "Append", buffer |-> p.v]

\* The Escape arm with the two escape codes exchanged.
insertEscapeSwapped(buf, max, value) ==
    IF value = ESC_END_CHAR
    THEN LET p == VecPush(buf, max, ESC_CHAR)
         IN  [ok |-> p.ok, state |-> "Append", buffer |-> p.v]
    ELSE IF value = ESC_ESC_CHAR
    THEN LET p == VecPush(buf, max, END_CHAR)
         IN  [ok |-> p.ok, state |-> "Append", buffer |-> p.v]
    ELSE [ok |-> FALSE, state |-> "Append", buffer |-> buf]

\* The Escape arm setting the state only once the escape code is accepted.
insertEscapeRolledBack(buf, max, value) ==
    IF value = ESC_END_CHAR
    THEN LET p == VecPush(buf, max, END_CHAR)
         IN  [ok |-> p.ok, state |-> "Append", buffer |-> p.v]
    ELSE IF value = ESC_ESC_CHAR
    THEN LET p == VecPush(buf, max, ESC_CHAR)
         IN  [ok |-> p.ok, state |-> "Append", buffer |-> p.v]
    ELSE [ok |-> FALSE, state |-> "Escape", buffer |-> buf]

\* The lenient Escape arm: a byte that is no escape code is taken literally,
\* ESC and the byte both going to the buffer.
insertEscapeLenient(buf, max, value) ==
    IF value = ESC_END_CHAR
    THEN LET p == VecPush(buf, max, END_CHAR)
         IN  [ok |-> p.ok, state |-> "Append", buffer |-> p.v]
    ELSE IF value = ESC_ESC_CHAR
    THEN LET p == VecPush(buf, max, ESC_CHAR)
         IN  [ok |-> p.ok, state |-> "Append", buffer |-> p.v]
    ELSE LET p == VecPush(buf, max, ESC_CHAR)
             q == VecPush(p.v, max, value)
         IN  [ok |-> p.ok /\ q.ok, state |-> "Append", buffer |-> q.v]

\* SlipDecoderState::Escape: the state is set to Append first; ESC_END pushes
\* END, ESC_ESC pushes ESC, any other byte is an error.
insertEscape(buf, max, value) ==
    IF value = ESC_END_CHAR
    THEN LET p == VecPush(buf, max, END_CHAR)
         IN  [ok |-> p.ok, state |-> "Append", buffer |-> p.v]
    ELSE IF value = ESC_ESC_CHAR
    THEN LET p == VecPush(buf, max, ESC_CHAR)
         IN  [ok |-> p.ok, state |-> "Append", buffer |-> p.v]
    ELSE [ok |-> FALSE, state |-> "Append", buffer |-> buf]

\* The End arm starting the next frame on END instead of failing.
insertEndRestarting(buf, max, value) ==
    IF value = END_CHAR
    THEN [ok |-> TRUE, state |-> "Append", buffer |-> <<>>]
    ELSE [ok |-> FALSE, state |-> "End", buffer |-> buf]

\* SlipDecoderState::End => Err(()).
insertEnd(buf, max, value) ==
    [ok |-> FALSE, state |-> "End", buffer |-> buf]

\* SlipDecoder::insert on a decoder (st, buf) of capacity max.
insert(st, buf, max, value) ==
    CASE st = "Start"  -> insertStart(buf, max, value)
      [] st = "Append" -> insertAppend(buf, max, value)
      [] st = "Escape" -> insertEscape(buf, max, value)
      [] st = "End"    -> insertEnd(buf, max, value)

\* reset leaving the buffer as it is.
resetKeepingBuffer(st, buf) == [state |-> "Start", buffer |-> buf]

\* SlipDecoder::reset: [state, buffer] as the call leaves them.
reset(st, buf) == [state |-> "Start", buffer |-> <<>>]

\* SlipDecoder::is_buffer_completed and SlipDecoder::get_buffer.
is_buffer_completed(st) == st = "End"
get_buffer(buf) == buf

\* ---------------------------------------------------------------- actions
\* A call of encode on the Vec.
Encode ==
    /\ encResult = "none"
    /\ LET r == encode(vec, encMaxLength)
       IN  /\ vec' = r.v
           /\ encResult' = IF r.ok THEN "Ok" ELSE "Err"
    /\ UNCHANGED <<encMaxLength, payload>>
    /\ UNCHANGED decVars

\* A call of insert(value) on the decoder.
Insert(value) ==
    /\ Len(log) < MaxLog
    /\ LET r == insert(state, buffer, decMaxLength, value)
       IN  /\ state' = r.state
           /\ buffer' = r.buffer
           /\ result' = IF r.ok THEN "Ok" ELSE "Err"
           /\ log' = Append(log, [op |-> "insert", byte |-> value, ok |-> r.ok,
                                  from |-> state, before |-> buffer,
                                  completed |-> is_buffer_completed(r.state),
                                  buf |-> get_buffer(r.buffer)])
    /\ UNCHANGED decMaxLength
    /\ UNCHANGED encVars

\* A call of reset() on the decoder.
Reset ==
    /\ Len(log) < MaxLog
    /\ LET r == reset(state, buffer)
       IN  /\ state' = r.state
           /\ buffer' = r.buffer
           /\ log' = Append(log, [op |-> "reset", byte |-> 0, ok |-> TRUE,
                                  from |-> state, before |-> buffer,
                                  completed |-> is_buffer_completed(r.state),
                                  buf |-> get_buffer(r.buffer)])
    /\ UNCHANGED <<decMaxLength, result>>
    /\ UNCHANGED encVars

\* SlipDecoder::default(): state Start, empty buffer.
DecoderDefault ==
    /\ state = "Start"
    /\ buffer = <<>>
    /\ result = "none"
    /\ log = <<>>

\* The encoder's Vec before any call: empty, never encoded.
EncoderIdle ==
    /\ vec = <<>>
    /\ payload = <<>>
    /\ encMaxLength = 0
    /\ encResult = "none"

\* A decoder of any capacity, freshly constructed.
Init ==
    /\ DecoderDefault
    /\ decMaxLength \in 0..MaxDecLength
    /\ EncoderIdle

Next == (\E value \in Bytes : Insert(value)) \/ Reset

Spec == Init /\ [][Next]_vars

\* A Vec<u8, MAX_LENGTH> holding any payload that fits it, and an idle decoder.
InitEnc ==
    /\ payload \in Payloads \cup {EscapeCharacters}
    /\ vec = payload
    /\ encMaxLength \in Len(payload)..MaxEncLength
    /\ encResult = "none"
    /\ DecoderDefault
    /\ decMaxLength = 0

NextEnc == Encode

SpecEnc == InitEnc /\ [][NextEnc]_vars

\* =================================================================== claims

\* k of a payload: its number of END and ESC bytes.
RECURSIVE NumSpecial(_)
NumSpecial(p) ==
    IF p = <<>> THEN 0
    ELSE (IF Head(p) \in {END_CHAR, ESC_CHAR} THEN 1 ELSE 0) + NumSpecial(Tail(p))

\* escape(p): END becomes ESC,ESC_END; ESC becomes ESC,ESC_ESC; the rest is kept.
RECURSIVE Escaped(_)
Escaped(p) ==
    IF p = <<>> THEN <<>>
    ELSE (IF Head(p) = END_CHAR THEN <<ESC_CHAR, ESC_END_CHAR>>
          ELSE IF Head(p) = ESC_CHAR THEN <<ESC_CHAR, ESC_ESC_CHAR>>
          ELSE <<Head(p)>>) \o Escaped(Tail(p))

\* s holds no END, and each ESC of it is followed by ESC_END or ESC_ESC.
RECURSIVE NoUnescaped(_)
NoUnescaped(s) ==
    IF s = <<>> THEN TRUE
    ELSE IF Head(s) = END_CHAR THEN FALSE
    ELSE IF Head(s) = ESC_CHAR
    THEN /\ Len(s) >= 2
         /\ s[2] \in {ESC_END_CHAR, ESC_ESC_CHAR}
         /\ NoUnescaped(SubSeq(s, 3, Len(s)))
    ELSE NoUnescaped(Tail(s))

\* n + 2 + k for the payload of the call.
FrameLen == Len(payload) + 2 + NumSpecial(payload)

\* C1 (Framing): after encode on a payload p of length n in a Vec of capacity
\* MAX_LENGTH >= n+2+k, the call returned Ok and the Vec is END ++ escape(p) ++
\* END: n+2+k bytes, END first and last, no unescaped END or ESC in between.
C1_Framing ==
    (encResult # "none" /\ encMaxLength >= FrameLen) =>
        /\ encResult = "Ok"
        /\ vec = <<END_CHAR>> \o Escaped(payload) \o <<END_CHAR>>
        /\ Len(vec) = FrameLen
        /\ vec[1] = END_CHAR
        /\ vec[Len(vec)] = END_CHAR
        /\ NoUnescaped(SubSeq(vec, 2, Len(vec) - 1))

\* C1 witness: a payload with an END, an ESC and an ordinary byte encoded in a
\* Vec with exactly n+2+k slots.
C1_Witness ==
    /\ encResult = "Ok"
    /\ payload = <<0, END_CHAR, ESC_CHAR>>
    /\ encMaxLength = FrameLen
    /\ vec = <<END_CHAR, 0, ESC_CHAR, ESC_END_CHAR, ESC_CHAR, ESC_ESC_CHAR, END_CHAR>>

\* C8 (Encoder capacity failure): with MAX_LENGTH < n+2+k the call returns an
\* error, never Ok; and the Vec never grows past MAX_LENGTH.
C8_EncoderCapacity ==
    /\ Len(vec) <= encMaxLength
    /\ (encResult # "none" /\ encMaxLength < FrameLen) => encResult = "Err"

\* C8 witness: the call failed on the closing END alone (capacity n+1+k) after
\* escaping a byte.
C8_Witness ==
    /\ encResult = "Err"
    /\ NumSpecial(payload) >= 1
    /\ encMaxLength = FrameLen - 1
    /\ Len(vec) = encMaxLength

\* C9 as claimed: whenever encode returned an error, the Vec differs from the
\* payload it held on entry.
C9_Original ==
    encResult = "Err" => vec # payload

\* C9 amended: a failed encode on a Vec that was not full on entry leaves it
\* changed (END in front of the payload's bytes, longer than the payload); a
\* failed encode on a Vec that was full on entry leaves it exactly as it was.
C9_NoRollback ==
    encResult = "Err" =>
        IF Len(payload) < encMaxLength
        THEN /\ vec # payload
             /\ Len(vec) > Len(payload)
             /\ vec[1] = END_CHAR
        ELSE vec = payload

\* C9 witness: a failed call that left a partially escaped Vec.
C9_Witness ==
    /\ encResult = "Err"
    /\ payload = <<END_CHAR, 0>>
    /\ encMaxLength = 4
    /\ vec = <<END_CHAR, ESC_CHAR, ESC_END_CHAR, 0>>

\* ------------------------------------------------------- decoder claims

\* The last call made on the decoder (when log is not empty).
Last == log[Len(log)]

\* The index in l of its last reset call, 0 when it has none.
RECURSIVE LastResetAt(_)
LastResetAt(l) ==
    IF l = <<>> THEN 0
    ELSE IF l[Len(l)].op = "reset" THEN Len(l)
    ELSE LastResetAt(SubSeq(l, 1, Len(l) - 1))

\* The insert calls made since the decoder was constructed or last reset, the
\* bytes they were given, and whether all of them returned Ok.
SinceReset == SubSeq(log, LastResetAt(log) + 1, Len(log))
Fed == LET s == SinceReset IN [i \in 1..Len(s) |-> s[i].byte]
FedOks == LET s == SinceReset IN [i \in 1..Len(s) |-> s[i].ok]
AllOk == LET s == SinceReset IN \A i \in 1..Len(s) : s[i].ok

IsPrefix(s, t) == Len(s) <= Len(t) /\ SubSeq(t, 1, Len(s)) = s

\* encode(p) in a Vec large enough for any payload of p's length.
Frame == [p \in Payloads |-> encode(p, 2 * Len(p) + 2).v]

\* The payloads that fit the decoder.
DecPayloads == {p \in Payloads : Len(p) <= decMaxLength}

\* A fresh decoder of capacity max fed `bytes` one at a time: where it ends and
\* what each insert returned.
RECURSIVE Run(_, _, _, _, _)
Run(st, buf, oks, max, bytes) ==
    IF bytes = <<>> THEN [state |-> st, buffer |-> buf, oks |-> oks]
    ELSE LET r == insert(st, buf, max, Head(bytes))
         IN  Run(r.state, r.buffer, Append(oks, r.ok), max, Tail(bytes))

FreshRun(max, bytes) == Run("Start", <<>>, <<>>, max, bytes)

\* `bytes` without the bytes that precede its first END.
RECURSIVE StripPresync(_)
StripPresync(bytes) ==
    IF bytes = <<>> \/ Head(bytes) = END_CHAR THEN bytes
    ELSE StripPresync(Tail(bytes))

\* The beginnings (whole frames included) of the frames of the payloads of at
\* most n bytes.
FramePrefixes ==
    [n \in 0..MaxLen |->
        UNION {{SubSeq(Frame[p], 1, k) : k \in 0..Len(Frame[p])} :
                   p \in {q \in Payloads : Len(q) <= n}}]

\* C2 (Round trip): a fresh or freshly reset decoder fed the bytes of encode(p),
\* p fitting its capacity, returns Ok on every insert, and after the last byte
\* is_buffer_completed() is true and get_buffer() is p.
C2_RoundTrip ==
    LET fed == Fed
    IN  (/\ decMaxLength <= MaxLen
         /\ fed # <<>>
         /\ fed[1] = END_CHAR
         /\ fed \in FramePrefixes[decMaxLength]) =>
            /\ AllOk
            /\ \A p \in DecPayloads :
                  fed = Frame[p] =>
                      /\ is_buffer_completed(state)
                      /\ get_buffer(buffer) = p

\* C2 witness: a reset decoder has decoded the frame of [END, 0x00].
C2_Witness ==
    /\ LastResetAt(log) > 0
    /\ Fed = Frame[<<END_CHAR, 0>>]
    /\ is_buffer_completed(state)
    /\ get_buffer(buffer) = <<END_CHAR, 0>>

\* C3 (Terminal protection): an insert of any byte made in End returns an error
\* and leaves the decoder in End with its buffer as it was; so it is for every
\* further insert, until reset().
C3_TerminalProtection ==
    (log # <<>> /\ Last.op = "insert" /\ Last.from = "End") =>
        /\ result = "Err"
        /\ ~Last.ok
        /\ state = "End"
        /\ is_buffer_completed(state)
        /\ buffer = Last.before

\* C3 witness: two inserts in a row refused in End, one of them of END, the
\* decoded payload still there.
C3_Witness ==
    /\ Len(log) >= 5
    /\ Last.op = "insert" /\ Last.from = "End" /\ Last.byte = END_CHAR
    /\ log[Len(log) - 1].op = "insert" /\ log[Len(log) - 1].from = "End"
    /\ result = "Err"
    /\ buffer = <<0>>

\* C4 (Presync): in Start an insert of a byte other than END returns Ok and
\* leaves state Start and the buffer unchanged; END moves to Append and stores
\* nothing; what the decoder holds afterwards does not depend on the bytes fed
\* before that END.
C4_Presync ==
    /\ (log # <<>> /\ Last.op = "insert" /\ Last.from = "Start") =>
          /\ result = "Ok"
          /\ buffer = Last.before
          /\ state = (IF Last.byte = END_CHAR THEN "Append" ELSE "Start")
    /\ LET r == FreshRun(decMaxLength, StripPresync(Fed))
       IN  r.state = state /\ r.buffer = buffer

\* C4 witness: ESC, ESC_END and an ordinary byte were fed before the opening
\* END, and the frame after them decoded to its payload.
C4_Witness ==
    /\ Fed = <<ESC_CHAR, ESC_END_CHAR, 0, END_CHAR, ESC_ESC_CHAR, END_CHAR>>
    /\ state = "End"
    /\ buffer = <<ESC_ESC_CHAR>>

\* C5 (Reset postcondition): after reset(), whatever the state it was called
\* in, state is Start, is_buffer_completed() is false and get_buffer() is
\* empty; and from there on the decoder does what a freshly constructed one
\* does with the same bytes (same state, same buffer, same results).
C5_Reset ==
    /\ (log # <<>> /\ Last.op = "reset") =>
          /\ state = "Start"
          /\ ~is_buffer_completed(state)
          /\ get_buffer(buffer) = <<>>
    /\ LET r == FreshRun(decMaxLength, Fed)
       IN  state = r.state /\ buffer = r.buffer /\ FedOks = r.oks

\* C5 witness: reset() called in Append after an insert error, with a partial
\* frame in the buffer; the next frame then decoded.
C5_Witness ==
    \E i \in 2..Len(log) :
        /\ log[i].op = "reset"
        /\ log[i].from = "Append"
        /\ log[i].before # <<>>
        /\ ~log[i - 1].ok
        /\ i < Len(log)
        /\ state = "End"

\* C6 (Invalid escape): in Escape an insert of a byte that is neither ESC_END
\* nor ESC_ESC returns an error, pushes nothing, and leaves the state Append.
C6_InvalidEscape ==
    (/\ log # <<>>
     /\ Last.op = "insert"
     /\ Last.from = "Escape"
     /\ Last.byte \notin {ESC_END_CHAR, ESC_ESC_CHAR}) =>
        /\ result = "Err"
        /\ buffer = Last.before
        /\ state = "Append"

\* C6 witness: END refused in Escape, a byte already in the buffer.
C6_Witness ==
    /\ log # <<>>
    /\ Last.op = "insert" /\ Last.from = "Escape" /\ Last.byte = END_CHAR
    /\ result = "Err"
    /\ state = "Append"
    /\ buffer = <<0>>

\* The call e is one that stores a payload byte.
StoresByte(e) ==
    /\ e.op = "insert"
    /\ \/ e.from = "Append" /\ e.byte \notin {END_CHAR, ESC_CHAR}
       \/ e.from = "Escape" /\ e.byte \in {ESC_END_CHAR, ESC_ESC_CHAR}

\* C7 (Decoder capacity failure): with MAX_LENGTH bytes in the buffer, an insert
\* that would store a payload byte returns an error and leaves the buffer as it
\* was; the buffer never holds more than MAX_LENGTH bytes.
C7_DecoderCapacity ==
    /\ Len(buffer) <= decMaxLength
    /\ (log # <<>> /\ StoresByte(Last) /\ Len(Last.before) = decMaxLength) =>
          /\ result = "Err"
          /\ buffer = Last.before

\* C7 witness: an escaped END refused by a full buffer of one byte.
C7_Witness ==
    /\ log # <<>>
    /\ decMaxLength = 1
    /\ Last.op = "insert" /\ Last.from = "Escape" /\ Last.byte = ESC_END_CHAR
    /\ result = "Err"
    /\ buffer = <<0>>

\* The bytes given to the insert calls of the whole run, resets left out.
RECURSIVE InsertedBytes(_)
InsertedBytes(l) ==
    IF l = <<>> THEN <<>>
    ELSE IF Head(l).op = "insert" THEN <<Head(l).byte>> \o InsertedBytes(Tail(l))
    ELSE InsertedBytes(Tail(l))

\* The payloads reported completed: get_buffer() after each insert that made
\* is_buffer_completed() true.
RECURSIVE Completions(_)
Completions(l) ==
    IF l = <<>> THEN <<>>
    ELSE IF Head(l).op = "insert" /\ Head(l).ok /\ Head(l).completed
    THEN <<Head(l).buf>> \o Completions(Tail(l))
    ELSE Completions(Tail(l))

\* The caller calls reset() after each completion and at no other time.
Disciplined ==
    \A i \in 1..Len(log) :
        (log[i].op = "reset") <=>
            (i > 1 /\ log[i - 1].op = "insert" /\ log[i - 1].ok /\ log[i - 1].completed)

\* s and t agree as far as the shorter of them goes.
Compatible(s, t) == IsPrefix(s, t) \/ IsPrefix(t, s)

\* The ends of frames: what follows the opening END of a frame, from any byte on.
FrameTails ==
    UNION {{SubSeq(Frame[p], k + 1, Len(Frame[p])) : k \in 1..(Len(Frame[p]) - 1)} :
               p \in Payloads}

\* C10 (Mid-stream attach), as claimed: a fresh decoder whose first byte lies
\* inside frame i, fed the rest of frame i, then frame i+1, then frame i+2, the
\* caller resetting after each completion, reports the payload of frame i+1
\* first and the payload of frame i+2 next.
C10_MidStreamAttach ==
    Disciplined =>
        \A tail \in FrameTails :
            Compatible(InsertedBytes(log), tail) =>
                \A p2 \in DecPayloads :
                    Compatible(InsertedBytes(log), tail \o Frame[p2]) =>
                        \A p3 \in DecPayloads :
                            IsPrefix(InsertedBytes(log), tail \o Frame[p2] \o Frame[p3]) =>
                                IsPrefix(Completions(log), <<p2, p3>>)

\* Every insert of the run returned Ok.
NoInsertError == \A i \in 1..Len(log) : log[i].ok

\* The payload a frame encodes.
Unframe ==
    [f \in {Frame[p] : p \in Payloads} |-> CHOOSE p \in Payloads : Frame[p] = f]

\* The index of the first END of s at or after i, 0 when there is none.
RECURSIVE NextEnd(_, _)
NextEnd(s, i) ==
    IF i > Len(s) THEN 0
    ELSE IF s[i] = END_CHAR THEN i
    ELSE NextEnd(s, i + 1)

\* A byte stream cut after every second END: the frames it is made of, the last
\* piece being what is left when the stream stops inside a frame.
RECURSIVE Chunks(_)
Chunks(s) ==
    IF s = <<>> THEN <<>>
    ELSE LET j == IF s[1] = END_CHAR THEN NextEnd(s, 2) ELSE 0
         IN  IF j = 0 THEN <<s>>
             ELSE <<SubSeq(s, 1, j)>> \o Chunks(SubSeq(s, j + 1, Len(s)))

\* The chunk c is a whole frame of a payload that fits the decoder.
WholeFrame(c) == c \in DOMAIN Unframe /\ Len(Unframe[c]) <= decMaxLength

\* The payloads of the chunks that are whole frames, in order.
RECURSIVE ChunkPayloads(_)
ChunkPayloads(cs) ==
    IF cs = <<>> THEN <<>>
    ELSE (IF WholeFrame(Head(cs)) THEN <<Unframe[Head(cs)]>> ELSE <<>>)
             \o ChunkPayloads(Tail(cs))

\* C11 (Multi-frame stream): one decoder fed encode(p1) ++ encode(p2) ++ ...
\* byte by byte, every pi fitting its capacity, the caller calling reset() after
\* each completion and at no other time: no insert returns an error, and the
\* payloads reported completed are p1, then p2, ..., one per frame fed in full.
C11_MultiFrame ==
    (Disciplined /\ log # <<>> /\ log[1].byte = END_CHAR) =>
        LET cs == Chunks(InsertedBytes(log))
        IN  (/\ decMaxLength <= MaxLen
             /\ \A i \in 1..Len(cs) : cs[i] \in FramePrefixes[decMaxLength]) =>
                /\ NoInsertError
                /\ Completions(log) = ChunkPayloads(cs)

\* C11 witness: the frames of [0x00] and of the empty payload decoded one after
\* the other, with one reset() between them.
C11_Witness ==
    /\ Disciplined
    /\ NoInsertError
    /\ InsertedBytes(log) = Frame[<<0>>] \o Frame[<<>>]
    /\ Completions(log) = << <<0>>, <<>> >>
    /\ state = "End"

\* What made the insert call e fail, "none" when nothing did.
Cause(e) ==
    IF e.from = "End" THEN "DecoderNotReset"
    ELSE IF e.from = "Escape" /\ e.byte \notin {ESC_END_CHAR, ESC_ESC_CHAR}
    THEN "InvalidEscapeSequence"
    ELSE IF StoresByte(e) /\ Len(e.before) = decMaxLength THEN "CapacityExceeded"
    ELSE "none"

\* The value an insert call returned: insert's type is Result<(), ()>.
ReturnedValue(e) == IF e.ok THEN "Ok(())" ELSE "Err(())"

C13_Original ==
    (/\ encResult # "none"
     /\ payload = <<192, 219, 220, 221>>
     /\ encMaxLength >= FrameLen) =>
        /\ encResult = "Ok"
        /\ vec = <<192, 219, 220, 219, 221, 220, 219, 221, 192>>

\* C13 amended: encode of [0xC0,0xDB,0xDC,0xDD] with enough capacity succeeds
\* and yields the 8 bytes [0xC0,0xDB,0xDC,0xDB,0xDD,0xDC,0xDD,0xC0]: ESC_END and
\* ESC_ESC in a payload are ordinary bytes and are not escaped.
C13_Scenario3 ==
    (/\ encResult # "none"
     /\ payload = <<192, 219, 220, 221>>
     /\ encMaxLength >= FrameLen) =>
        /\ encResult = "Ok"
        /\ vec = <<192, 219, 220, 219, 221, 220, 221, 192>>
        /\ Len(vec) = 8

\* C13 witness: the call on that payload returned Ok.
C13_Witness ==
    /\ payload = <<192, 219, 220, 221>>
    /\ payload = EscapeCharacters
    /\ encResult = "Ok"
    /\ Len(vec) = 8

\* C14 (Append transitions): in Append, insert(END) returns Ok, sets state End
\* and leaves the buffer unchanged; insert(ESC) returns Ok, sets state Escape
\* and leaves the buffer unchanged; insert of any other byte b with spare
\* capacity returns Ok, keeps state Append and appends exactly b.
C14_AppendTransitions ==
    (log # <<>> /\ Last.op = "insert" /\ Last.from = "Append") =>
        IF Last.byte = END_CHAR
        THEN result = "Ok" /\ state = "End" /\ buffer = Last.before
        ELSE IF Last.byte = ESC_CHAR
        THEN result = "Ok" /\ state = "Escape" /\ buffer = Last.before
        ELSE Len(Last.before) < decMaxLength =>
                /\ result = "Ok"
                /\ state = "Append"
                /\ buffer = Append(Last.before, Last.byte)

\* C14 witness: ESC_END, an ordinary byte in Append, appended after 0x00.
C14_Witness ==
    /\ log # <<>>
    /\ Last.op = "insert" /\ Last.from = "Append" /\ Last.byte = ESC_END_CHAR
    /\ result = "Ok"
    /\ state = "Append"
    /\ buffer = <<0, ESC_END_CHAR>>

\* C15 (Escape transitions): in Escape with spare capacity, insert(ESC_END)
\* returns Ok, sets state Append and appends exactly END; insert(ESC_ESC)
\* returns Ok, sets state Append and appends exactly ESC; neither the ESC byte
\* nor the escape code is stored.
C15_EscapeTransitions ==
    (/\ log # <<>>
     /\ Last.op = "insert"
     /\ Last.from = "Escape"
     /\ Last.byte \in {ESC_END_CHAR, ESC_ESC_CHAR}
     /\ Len(Last.before) < decMaxLength) =>
        /\ result = "Ok"
        /\ state = "Append"
        /\ buffer = Append(Last.before,
                           IF Last.byte = ESC_END_CHAR THEN END_CHAR ELSE ESC_CHAR)

\* C15 witness: ESC, ESC_ESC decoded to ESC after ESC, ESC_END decoded to END.
C15_Witness ==
    /\ log # <<>>
    /\ Last.op = "insert" /\ Last.from = "Escape" /\ Last.byte = ESC_ESC_CHAR
    /\ result = "Ok"
    /\ state = "Append"
    /\ buffer = <<END_CHAR, ESC_CHAR>>

\* The beginnings (whole frames included) of the frames of the payloads of
\* exactly n bytes.
ExactFramePrefixes ==
    [n \in 0..MaxLen |->
        UNION {{SubSeq(Frame[p], 1, k) : k \in 0..Len(Frame[p])} :
                   p \in {q \in Payloads : Len(q) = n}}]

\* The number of payload bytes in the beginning s of a frame: a byte that is
\* not END or ESC counts for one, ESC with the code after it for one, END and
\* an ESC still waiting for its code for none.
RECURSIVE PayloadBytes(_)
PayloadBytes(s) ==
    IF s = <<>> THEN 0
    ELSE IF Head(s) = END_CHAR THEN PayloadBytes(Tail(s))
    ELSE IF Head(s) = ESC_CHAR
    THEN IF Len(s) >= 2 THEN 1 + PayloadBytes(SubSeq(s, 3, Len(s))) ELSE 0
    ELSE 1 + PayloadBytes(Tail(s))

\* C16 (Decoder capacity counts payload bytes only): a decoder with MAX_LENGTH
\* exactly n, fresh or reset, fed a frame whose payload has n bytes returns Ok
\* on every insert; after each of them the buffer holds as many bytes as
\* payload bytes have been decoded, the END delimiters and the ESC bytes taking
\* no room.
C16_PayloadBytesOnly ==
    LET fed == Fed
    IN  (/\ decMaxLength <= MaxLen
         /\ fed # <<>>
         /\ fed[1] = END_CHAR
         /\ fed \in ExactFramePrefixes[decMaxLength]) =>
            /\ AllOk
            /\ Len(buffer) = PayloadBytes(fed)
            /\ IsPrefix(<<END_CHAR>> \o Escaped(buffer), fed)
            /\ Len(fed) - Len(<<END_CHAR>> \o Escaped(buffer)) <= 1

\* C16 witness: a decoder of capacity 2 decoded the six-byte frame of [END, ESC].
C16_Witness ==
    /\ decMaxLength = 2
    /\ Fed = Frame[<<END_CHAR, ESC_CHAR>>]
    /\ Len(Fed) = 6
    /\ AllOk
    /\ state = "End"
    /\ buffer = <<END_CHAR, ESC_CHAR>>

\* C17 (Prefix growth): for every insert, failed ones included, the buffer
\* before the call is a prefix of the buffer after it and at most one byte
\* longer; so every get_buffer() read since the last reset is a prefix of the
\* buffer now, and of the payload reported at End.
C17_PrefixGrowth ==
    /\ (log # <<>> /\ Last.op = "insert") =>
          /\ IsPrefix(Last.before, buffer)
          /\ Len(buffer) <= Len(Last.before) + 1
    /\ LET s == SinceReset
       IN  \A i \in 1..Len(s) :
               /\ IsPrefix(s[i].before, get_buffer(buffer))
               /\ IsPrefix(s[i].buf, get_buffer(buffer))

\* C17 witness: [0x00] was read from the buffer before the frame of [0x00, END]
\* completed.
C17_Witness ==
    /\ state = "End"
    /\ buffer = <<0, END_CHAR>>
    /\ \E i \in 1..Len(SinceReset) :
           SinceReset[i].buf = <<0>> /\ ~SinceReset[i].completed

\* C18 (Start implies empty buffer): in every reachable state of the decoder,
\* state Start implies an empty buffer; a byte is in the buffer only after an
\* opening END has been inserted since construction or the last reset.
C18_StartEmpty ==
    /\ state = "Start" => buffer = <<>>
    /\ buffer # <<>> =>
          LET fed == Fed IN \E i \in 1..Len(fed) : fed[i] = END_CHAR

\* C18 witness: the decoder is in Start, bytes having been skipped there, after
\* a reset() that discarded a partial frame.
C18_Witness ==
    /\ state = "Start"
    /\ log # <<>>
    /\ Last.op = "insert" /\ Last.byte = ESC_END_CHAR
    /\ \E i \in 1..Len(log) : log[i].op = "reset" /\ log[i].before # <<>>

\* C19 (Errors other than the End-state error do not latch): after an insert
\* returned an error in Append or in Escape the decoder is in Append with its
\* buffer as before the call; without reset(), a following insert(END) returns
\* Ok and completes the frame with the bytes accumulated so far.
C19_NoLatch ==
    /\ (/\ log # <<>>
        /\ Last.op = "insert"
        /\ ~Last.ok
        /\ Last.from \in {"Append", "Escape"}) =>
          /\ state = "Append"
          /\ buffer = Last.before
    /\ (/\ Len(log) >= 2
        /\ log[Len(log) - 1].op = "insert"
        /\ ~log[Len(log) - 1].ok
        /\ log[Len(log) - 1].from \in {"Append", "Escape"}
        /\ Last.op = "insert"
        /\ Last.byte = END_CHAR) =>
          /\ result = "Ok"
          /\ is_buffer_completed(state)
          /\ get_buffer(buffer) = log[Len(log) - 1].before

\* C19 witness: ESC, 0x00 was refused in Escape after [0x00] was stored, and
\* the END after it completed the frame with [0x00].
C19_Witness ==
    /\ Len(log) >= 2
    /\ ~log[Len(log) - 1].ok
    /\ log[Len(log) - 1].from = "Escape"
    /\ Last.op = "insert" /\ Last.byte = END_CHAR
    /\ result = "Ok"
    /\ state = "End"
    /\ buffer = <<0>>

\* C20 (Decode then encode): a byte sequence that begins with END and that a
\* fresh or reset decoder consumed with every insert returning Ok, reaching End
\* at its last byte, is what encode gives for the decoded get_buffer().
C20_DecodeEncode ==
    (state = "End" /\ AllOk) =>
        LET fed == Fed
            r == encode(get_buffer(buffer), 2 * Len(buffer) + 2)
        IN  (fed # <<>> /\ fed[1] = END_CHAR) => (r.ok /\ r.v = fed)

\* C20 witness: END, ESC, ESC_ESC, ESC_END, END decoded to [ESC, ESC_END].
C20_Witness ==
    /\ state = "End"
    /\ AllOk
    /\ Fed = <<END_CHAR, ESC_CHAR, ESC_ESC_CHAR, ESC_END_CHAR, END_CHAR>>
    /\ buffer = <<ESC_CHAR, ESC_END_CHAR>>

=============================================================================
